---------------------------- MODULE Spec2Model ----------------------------
(***************************************************************************)
(* A model of build_opi.py: the BOY OPI screen generator.                  *)
(*                                                                         *)
(* The program is single threaded.  Its decision logic lives in five       *)
(* places, each modelled by its own specification over the shared state:   *)
(*                                                                         *)
(*   SpecMacro   sub_macros / expand_macros            (lines 168-176)     *)
(*   SpecGroup   the pairing loop of main               (lines 278-289)     *)
(*   SpecInfo    get_pv_info                            (lines 178-239)     *)
(*   SpecRun     display_from_pv_list                   (lines 241-252)     *)
(*   SpecLayout  make_display and add_widget            (lines  99-166)     *)
(*                                                                         *)
(* Text (a Python str) is a sequence of one-character strings.  The code   *)
(* is Python 2 (print_function import, str-formatting of ET.tostring), so   *)
(* a dict is iterated in one fixed order per table and a list              *)
(* comprehension leaks its loop variable.                                  *)
(***************************************************************************)
EXTENDS Integers, Sequences, FiniteSets, TLC

VARIABLES
    \* sub_macros / expand_macros
    mtext,      \* the text being rewritten
    mtab,       \* the macro table, in its iteration order
    morig,      \* the PV name the run started from
    mpc,        \* "start" | "subbed" | "expanded"
    \* pairing loop of main
    others,     \* the working singles list (line 278)
    groups,     \* the pairs found so far (line 279)
    work,       \* list(others): the copy the loop iterates (line 281)
    gi,         \* position of the loop in work
    gpc,        \* "loop" | "done" | "raised"
    pairf,      \* pv |-> re.sub(pattern, replace, pv)
    input,      \* the PV list the loop started from
    \* get_pv_info
    call,       \* arguments and external answers of the last call
    ret,        \* its result
    \* display_from_pv_list
    runMacros,  \* macros of the run
    runList,    \* others + groups (line 245)
    ri,         \* position of the comprehension of line 244
    info,       \* results collected by line 244
    rpc,        \* "resolve" | "displayed" | "raised"
    shown,      \* the list handed to make_display (line 250)
    runErr,     \* the call whose ValueError ended the run
    \* make_display / add_widget
    templates,  \* the template catalog (global of line 46)
    pvs,        \* the group records passed to make_display
    shared,     \* **info of make_display: the shared layout fields
    title,      \* title argument
    sort,       \* sort argument
    xpos,       \* x argument
    cursor,     \* y, the layout cursor (a rational <<num, den>>)
    root,       \* the nodes appended to the display root
    calls,      \* one record per add_widget call made so far
    dmacros,    \* macros argument of make_display
    injected,   \* the children added to the root's macros element
    li,         \* position of the loop of line 161
    lpc         \* "title" | "groups" | "done" | "raised"

macroVars  == <<mtext, mtab, morig, mpc>>
groupVars  == <<others, groups, work, gi, gpc, pairf, input>>
infoVars   == <<call, ret>>
runVars    == <<runMacros, runList, ri, info, rpc, shown, runErr>>
layoutVars == <<templates, pvs, shared, title, sort, xpos, cursor, root, calls,
                dmacros, injected, li, lpc>>
vars == <<macroVars, groupVars, infoVars, runVars, layoutVars>>

-----------------------------------------------------------------------------
(* Bounds of the model *)

MaxLen == 3         \* longest PV name drawn for the macro round trip
MaxList == 3        \* longest PV list drawn for the pairing loop
MaxItems == 2       \* longest others + groups list drawn for a run
MaxGroups == 2      \* most group records drawn for make_display
MaxPVs == 2         \* longest PV tuple passed to get_pv_info
MaxRtype == 2       \* longest explicit record-type list passed to get_pv_info

-----------------------------------------------------------------------------
(* Python text primitives *)

\* text.startswith(pre)
StartsWith(text, pre) ==
    /\ Len(text) >= Len(pre)
    /\ SubSeq(text, 1, Len(pre)) = pre

\* sub in text
Contains(text, sub) ==
    \E k \in 0..(Len(text) - Len(sub)) : SubSeq(text, k + 1, k + Len(sub)) = sub

RECURSIVE Interleave(_, _)
\* c1 new c2 new ... cn new : what str.replace('', new) puts after its first new
Interleave(text, new) ==
    IF text = <<>> THEN <<>>
    ELSE <<Head(text)>> \o new \o Interleave(Tail(text), new)

RECURSIVE ReplaceNonEmpty(_, _, _)
ReplaceNonEmpty(text, old, new) ==
    IF Len(text) < Len(old) THEN text
    ELSE IF StartsWith(text, old)
         THEN new \o ReplaceNonEmpty(SubSeq(text, Len(old) + 1, Len(text)), old, new)
         ELSE <<Head(text)>> \o ReplaceNonEmpty(Tail(text), old, new)

\* str.replace(old, new): every non-overlapping occurrence, left to right; an
\* empty old matches before every character and at the end
StrReplace(text, old, new) ==
    IF old = <<>> THEN new \o Interleave(text, new)
    ELSE ReplaceNonEmpty(text, old, new)

\* '$(%s)' % name
Token(name) == <<"$", "(">> \o name \o <<")">>

\* the regular expression '\$[({]%s[)}]' % name matches at the start of text
TokenAt(text, name) ==
    /\ Len(text) >= Len(name) + 3
    /\ text[1] = "$"
    /\ text[2] \in {"(", "{"}
    /\ SubSeq(text, 3, Len(name) + 2) = name
    /\ text[Len(name) + 3] \in {")", "}"}

RECURSIVE ReSubToken(_, _, _)
\* re.sub('\$[({]%s[)}]' % name, to, text)
ReSubToken(text, name, to) ==
    IF text = <<>> THEN <<>>
    ELSE IF TokenAt(text, name)
         THEN to \o ReSubToken(SubSeq(text, Len(name) + 4, Len(text)), name, to)
         ELSE <<Head(text)>> \o ReSubToken(Tail(text), name, to)

RECURSIVE sub_macros(_, _)
sub_macros(text, macros) ==
    IF macros = <<>> THEN text
    ELSE sub_macros(StrReplace(text, Head(macros).to, Token(Head(macros).from)),
                    Tail(macros))

RECURSIVE expand_macros(_, _)
expand_macros(text, macros) ==
    IF macros = <<>> THEN text
    ELSE expand_macros(ReSubToken(text, Head(macros).from, Head(macros).to),
                       Tail(macros))


-----------------------------------------------------------------------------
(* Values every specification gives to the state of the components it does *)
(* not exercise                                                             *)

MacroIdle ==
    /\ mtext = <<>> /\ mtab = <<>> /\ morig = <<>> /\ mpc = "idle"

GroupIdle ==
    /\ others = <<>> /\ groups = <<>> /\ work = <<>> /\ gi = 0 /\ gpc = "idle"
    /\ pairf = <<>> /\ input = <<>>

InfoIdle ==
    /\ call = <<>> /\ ret = <<>>

RunIdle ==
    /\ runMacros = <<>> /\ runList = <<>> /\ ri = 0 /\ info = <<>> /\ rpc = "idle"
    /\ shown = <<>> /\ runErr = <<>>

LayoutIdle ==
    /\ templates = <<>> /\ pvs = <<>> /\ shared = <<>> /\ title = "" /\ sort = ""
    /\ xpos = <<0, 1>> /\ cursor = <<0, 1>> /\ root = <<>> /\ calls = <<>> /\ li = 0
    /\ dmacros = <<>> /\ injected = <<>>
    /\ lpc = "idle"

\* every sequence over S of length at most n
SeqsUpTo(S, n) == UNION {[1..k -> S] : k \in 0..n}

-----------------------------------------------------------------------------
(* sub_macros and expand_macros applied in turn to one PV name *)

MacroAlphabet == {"$", "(", ")", "{", "D", "X"}
MacroNames == {<<"D">>, <<"X">>}
\* macro values, as --macros NAME=value gives them: not empty
MacroValues == {<<"D">>, <<"X">>, <<"X", "D">>, <<"(">>}

\* macro tables (dicts) in their iteration order: the names are distinct
MacroTables ==
    {m \in SeqsUpTo([from : MacroNames, to : MacroValues], Cardinality(MacroNames)) :
        \A i, j \in DOMAIN m : i # j => m[i].from # m[j].from}

MacroInit ==
    /\ morig \in SeqsUpTo(MacroAlphabet, MaxLen)
    /\ mtab \in MacroTables
    /\ mtext = morig
    /\ mpc = "start"
    /\ GroupIdle /\ InfoIdle /\ RunIdle /\ LayoutIdle

\* line 269: pvs = [sub_macros(pv, macros) for pv in pvs]
MacroSub ==
    /\ mpc = "start"
    /\ mtext' = sub_macros(mtext, mtab)
    /\ mpc' = "subbed"
    /\ UNCHANGED <<mtab, morig, groupVars, infoVars, runVars, layoutVars>>

\* lines 187, 224: expand_macros(pv, macros)
MacroExpand ==
    /\ mpc = "subbed"
    /\ mtext' = expand_macros(mtext, mtab)
    /\ mpc' = "expanded"
    /\ UNCHANGED <<mtab, morig, groupVars, infoVars, runVars, layoutVars>>

MacroNext == MacroSub \/ MacroExpand

SpecMacro == MacroInit /\ [][MacroNext]_vars

\* p contains a macro token of the table, in either bracket form
HasToken(p, m) ==
    \E i \in DOMAIN m : \E k \in 0..Len(p) :
        TokenAt(SubSeq(p, k + 1, Len(p)), m[i].from)

\* C8: for every PV name p containing no macro token and no token collision
\* (no '$' at all in p; every macro value non-empty and none occurring in
\* another) and every macro table m of one or several macros, expanding the
\* macro-substituted name gives p back: expand_macros(sub_macros(p, m), m) = p.
C8_RoundTrip ==
    (/\ mpc = "expanded"
     /\ ~HasToken(morig, mtab)
     /\ ~Contains(morig, <<"$">>)
     /\ \A i \in DOMAIN mtab : mtab[i].to # <<>>
     /\ \A i, j \in DOMAIN mtab : i # j => ~Contains(mtab[i].to, mtab[j].to))
        => mtext = morig

-----------------------------------------------------------------------------
(* The pairing loop of main, lines 278-289 *)

GroupPVs == {"a", "b", "c"}

\* x in list
InList(list, x) == \E k \in DOMAIN list : list[k] = x

RECURSIVE ListRemove(_, _)
\* list.remove(x): drops the first occurrence of x (the caller has checked
\* that there is one; without one Python raises ValueError)
ListRemove(list, x) ==
    IF list = <<>> THEN <<>>
    ELSE IF Head(list) = x THEN Tail(list)
         ELSE <<Head(list)>> \o ListRemove(Tail(list), x)

\* line 286: pv1 != pv2 and pv2 in others
PairFound(pv1, pv2, singles) == pv1 # pv2 /\ InList(singles, pv2)

GroupInit ==
    /\ input \in SeqsUpTo(GroupPVs, MaxList)
    /\ pairf \in [GroupPVs -> GroupPVs]
    /\ others = input
    /\ groups = <<>>
    /\ work = input
    /\ gi = 1
    /\ gpc = "loop"
    /\ MacroIdle /\ InfoIdle /\ RunIdle /\ LayoutIdle

\* lines 281-286, the condition of line 286 false: next pv1.  (Line 282 never
\* holds: the list holds PV names only.)
GroupSkip ==
    /\ gpc = "loop" /\ gi <= Len(work)
    /\ ~PairFound(work[gi], pairf[work[gi]], others)
    /\ gi' = gi + 1
    /\ UNCHANGED <<others, groups, work, gpc, pairf, input>>
    /\ UNCHANGED <<macroVars, infoVars, runVars, layoutVars>>

\* lines 286-289 with pv1 still in others: both removes succeed
GroupPair ==
    /\ gpc = "loop" /\ gi <= Len(work)
    /\ PairFound(work[gi], pairf[work[gi]], others)
    /\ InList(others, work[gi])
    /\ others' = ListRemove(ListRemove(others, work[gi]), pairf[work[gi]])
    /\ groups' = Append(groups, <<work[gi], pairf[work[gi]]>>)
    /\ gi' = gi + 1
    /\ UNCHANGED <<work, gpc, pairf, input>>
    /\ UNCHANGED <<macroVars, infoVars, runVars, layoutVars>>

\* line 287 with pv1 no longer in others: others.remove(pv1) raises ValueError
GroupRaise ==
    /\ gpc = "loop" /\ gi <= Len(work)
    /\ PairFound(work[gi], pairf[work[gi]], others)
    /\ ~InList(others, work[gi])
    /\ gpc' = "raised"
    /\ UNCHANGED <<others, groups, work, gi, pairf, input>>
    /\ UNCHANGED <<macroVars, infoVars, runVars, layoutVars>>

\* the loop of line 281 is exhausted
GroupDone ==
    /\ gpc = "loop" /\ gi > Len(work)
    /\ gpc' = "done"
    /\ UNCHANGED <<others, groups, work, gi, pairf, input>>
    /\ UNCHANGED <<macroVars, infoVars, runVars, layoutVars>>

GroupNext == GroupSkip \/ GroupPair \/ GroupRaise \/ GroupDone

SpecGroup == GroupInit /\ [][GroupNext]_vars

\* occurrences of x in list
Count(list, x) == Cardinality({k \in DOMAIN list : list[k] = x})

\* occurrences of x as a member of a pair
PairCount(pairs, x) ==
    Cardinality({k \in DOMAIN pairs : pairs[k][1] = x})
    + Cardinality({k \in DOMAIN pairs : pairs[k][2] = x})

\* C1: for every PV list and every pair transform, grouping does not raise,
\* a PV consumed by an earlier pair is not taken for pairing again, and at the
\* end every PV occurrence of the input is in singles or in exactly one pair.
C1_GroupingSound ==
    /\ gpc # "raised"
    /\ (gpc = "loop" /\ gi <= Len(work)
            /\ PairFound(work[gi], pairf[work[gi]], others))
        => InList(others, work[gi])
    /\ gpc = "done" =>
        \A pv \in GroupPVs : Count(input, pv) = Count(others, pv) + PairCount(groups, pv)

-----------------------------------------------------------------------------
(* get_pv_info, lines 178-239 *)

\* lines 47-64
rtype_groups ==
    [ai |-> <<"text", "r">>,        ao |-> <<"text", "w">>,
     bi |-> <<"binary", "r">>,      bo |-> <<"binary", "w">>,
     stringin |-> <<"text", "r">>,  stringout |-> <<"text", "w">>,
     longin |-> <<"text", "r">>,    longout |-> <<"text", "w">>,
     mbbi |-> <<"menu", "r">>,      mbbo |-> <<"menu", "w">>,
     calc |-> <<"text", "r">>,      calcout |-> <<"text", "r">>]

\* line 66 with line 231: '%(group)s_%(access)s_group'
group_to_template(group, access) ==
    CASE group = "text"   /\ access = "ro" -> "text_ro_group"
      [] group = "text"   /\ access = "wo" -> "text_wo_group"
      [] group = "text"   /\ access = "rw" -> "text_rw_group"
      [] group = "binary" /\ access = "ro" -> "binary_ro_group"
      [] group = "binary" /\ access = "wo" -> "binary_wo_group"
      [] group = "binary" /\ access = "rw" -> "binary_rw_group"
      [] group = "menu"   /\ access = "ro" -> "menu_ro_group"
      [] group = "menu"   /\ access = "wo" -> "menu_wo_group"
      [] group = "menu"   /\ access = "rw" -> "menu_rw_group"

\* Python's None where a text is expected (what epics.caget gives on failure)
None == <<"None">>

\* lines 180-181: a str argument becomes a one-element tuple
PvTuple(pvarg) == IF pvarg.kind = "str" THEN <<pvarg.val>> ELSE pvarg.val

\* line 183: not rtype or len(rtype) != 2
RtypeQueried(rtype) == rtype = <<>> \/ Len(rtype) # 2

\* line 198: access == 2 * ['r'] or access == 2 * ['w']
SameDirectionMutant(access) == access = <<"r", "r">>
SameDirection(access) == access = <<"r", "r">> \/ access = <<"w", "w">>

Min(a, b) == IF a <= b THEN a ELSE b

\* lines 201-209: the last PV of zip(pvs, rtype_info) with direction dir, or ''
LastWithDirection(tup, rtype_info, dir) ==
    LET ks == {k \in 1..Min(Len(tup), Len(rtype_info)) : rtype_info[k][2] = dir}
    IN  IF ks = {} THEN <<>>
        ELSE tup[CHOOSE k \in ks : \A j \in ks : j <= k]

\* lines 211-221: access, or the ValueError of line 221
AccessOfMutant(readback_pv, setpoint_pv) ==
    IF readback_pv # <<>> THEN (IF setpoint_pv # <<>> THEN "rw" ELSE "wo")
    ELSE IF setpoint_pv # <<>> THEN "ro"
    ELSE "ValueError"
AccessOf(readback_pv, setpoint_pv) ==
    IF readback_pv # <<>> THEN (IF setpoint_pv # <<>> THEN "rw" ELSE "ro")
    ELSE IF setpoint_pv # <<>> THEN "wo"
    ELSE "ValueError"

\* lines 212, 218: desc_pv
DescPvOf(readback_pv, setpoint_pv) ==
    IF readback_pv # <<>> THEN readback_pv ELSE setpoint_pv

\* line 223: not description and macros
DescQueried(description, macros) == description = <<>> /\ macros # <<>>

\* lines 223-229
DescriptionOf(description, macros, readback_pv, descAns) ==
    IF DescQueried(description, macros)
    THEN (IF descAns # None THEN descAns ELSE description)
    ELSE readback_pv

\* what a call leaves behind when it does not return a dict
NoGroup(outcome, rq, rtype) ==
    [outcome |-> outcome, readback_pv |-> <<>>, setpoint_pv |-> <<>>,
     desc |-> <<>>, desc_pv |-> <<>>, template |-> "", access |-> "",
     rtype |-> rtype, rtypQueries |-> rq, descQueries |-> <<>>]

\* get_pv_info(macros, pvs, rtype, description), with rtAns[k] the answer of
\* epics.caget to the k-th .RTYP query and descAns the answer to the .DESC
\* query.  outcome is "ok" (a dict is returned: the fields readback_pv,
\* setpoint_pv, desc, desc_pv, template), "None" (line 194) or the ValueError
\* raised; access and rtype are the locals of those names; rtypQueries and
\* descQueries are the record names queried.
get_pv_info(macros, pvarg, rtypeArg, description, rtAns, descAns) ==
    LET tup == PvTuple(pvarg)
        queried == RtypeQueried(rtypeArg)
        rq == IF queried /\ macros # <<>>
              THEN [k \in 1..Len(tup) |-> expand_macros(tup[k], macros)]
              ELSE <<>>
        rtype == IF queried THEN [k \in 1..Len(tup) |-> rtAns[k]] ELSE rtypeArg
    IN
    IF queried /\ macros = <<>> THEN NoGroup("ValueError: macros must be set", rq, rtypeArg)
    ELSE IF \E k \in DOMAIN rtype : rtype[k] \notin DOMAIN rtype_groups
    THEN NoGroup("None", rq, rtype)
    ELSE
    LET rtype_info == [k \in DOMAIN rtype |-> rtype_groups[rtype[k]]]
        access == [k \in DOMAIN rtype |-> rtype_info[k][2]]
        readback_pv == LastWithDirection(tup, rtype_info, "r")
        setpoint_pv == LastWithDirection(tup, rtype_info, "w")
    IN
    IF SameDirection(access) THEN NoGroup("ValueError: 2 readbacks/setpoints", rq, rtype)
    ELSE IF AccessOf(readback_pv, setpoint_pv) = "ValueError"
    THEN NoGroup("ValueError: need either pv", rq, rtype)
    ELSE
    LET desc_pv == DescPvOf(readback_pv, setpoint_pv)
        acc == AccessOf(readback_pv, setpoint_pv)
        group == rtype_info[Min(Len(tup), Len(rtype_info))][1]
    IN  [outcome |-> "ok",
         readback_pv |-> readback_pv,
         setpoint_pv |-> setpoint_pv,
         desc |-> DescriptionOf(description, macros, readback_pv, descAns),
         desc_pv |-> desc_pv,
         template |-> group_to_template(group, acc),
         access |-> acc,
         rtype |-> rtype,
         rtypQueries |-> rq,
         descQueries |-> IF DescQueried(description, macros)
                         THEN <<expand_macros(desc_pv, macros)>> ELSE <<>>]

InfoPVs == {<<>>, <<"a">>, <<"$", "(", "M", ")">>}
InfoMacros == {<<>>, <<[from |-> <<"M">>, to |-> <<"b">>]>>}
ExplicitTypes == {"bi", "ao", "weirdtype"}
CaTypes == {"ai", "mbbo", "weirdtype", "None"}
Descriptions == {<<>>, <<"d">>}
DescAnswers == {None, <<"D">>}

PvArgs ==
    {[kind |-> "str", val |-> pv] : pv \in InfoPVs}
    \cup {[kind |-> "tuple", val |-> t] : t \in SeqsUpTo(InfoPVs, MaxPVs)}

InfoInit ==
    /\ call = [made |-> FALSE]
    /\ ret = NoGroup("no call", <<>>, <<>>)
    /\ MacroIdle /\ GroupIdle /\ RunIdle /\ LayoutIdle

\* one call of get_pv_info per behaviour; the external answers are drawn only
\* for the queries the call makes
GetPvInfo ==
    /\ ~call.made
    /\ \E macros \in InfoMacros, pvarg \in PvArgs,
       rtype \in SeqsUpTo(ExplicitTypes, MaxRtype), description \in Descriptions :
       \E rtAns \in [1..Len(PvTuple(pvarg)) -> CaTypes], descAns \in DescAnswers :
        /\ (RtypeQueried(rtype) /\ macros # <<>>) \/ \A k \in DOMAIN rtAns : rtAns[k] = "None"
        /\ LET r == get_pv_info(macros, pvarg, rtype, description, rtAns, descAns)
           IN  /\ r.descQueries # <<>> \/ descAns = None
               /\ ret' = r
        /\ call' = [made |-> TRUE, macros |-> macros, pvs |-> pvarg, rtype |-> rtype,
                    description |-> description, rtAns |-> rtAns, descAns |-> descAns]
        /\ UNCHANGED <<macroVars, groupVars, runVars, layoutVars>>

InfoNext == GetPvInfo

SpecInfo == InfoInit /\ [][InfoNext]_vars

\* the record types are all in the table
TypesMapped(types) == \A k \in DOMAIN types : types[k] \in DOMAIN rtype_groups

\* the record types the call in state works with: the explicit ones, or the
\* answers of the record-type queries
CallTypes ==
    IF RtypeQueried(call.rtype) THEN call.rtAns ELSE call.rtype

\* the call got as far as looking its record types up
CallResolved ==
    /\ call.made
    /\ ~(RtypeQueried(call.rtype) /\ call.macros = <<>>)
    /\ TypesMapped(CallTypes)

CallDirections == [k \in DOMAIN CallTypes |-> rtype_groups[CallTypes[k]][2]]

\* C2: a tuple of exactly two PVs whose record types both map to the same
\* direction fails with an error and yields no group; no group produced from
\* two PVs has two readbacks or two setpoints.
C2_SameDirectionFails ==
    (/\ CallResolved
     /\ Len(PvTuple(call.pvs)) = 2
     /\ Len(CallTypes) = 2
     /\ CallDirections[1] = CallDirections[2])
        => /\ ret.outcome = "ValueError: 2 readbacks/setpoints"
           /\ ret.readback_pv = <<>> /\ ret.setpoint_pv = <<>> /\ ret.template = ""

\* a state in which C2's case happened: two PVs, both setpoints
C2_Witness ==
    /\ CallResolved
    /\ Len(PvTuple(call.pvs)) = 2
    /\ CallDirections = <<"w", "w">>
    /\ ret.outcome = "ValueError: 2 readbacks/setpoints"

\* the PV of the call that zip(pvs, rtype_info) pairs with direction d, or ''
CallPvOfDirection(d) ==
    LET tup == PvTuple(call.pvs)
        ks == {k \in 1..Min(Len(tup), Len(CallTypes)) : CallDirections[k] = d}
    IN  IF ks = {} THEN <<>> ELSE tup[CHOOSE k \in ks : TRUE]

\* C3: for a tuple of one or two PVs with mapped record types that are not
\* both of the same direction, in either order, the 'r' PV becomes readback_pv
\* and the 'w' PV setpoint_pv; (access, desc_pv) is ('rw', readback_pv) with
\* both present, ('ro', readback_pv) with a readback only, ('wo', setpoint_pv)
\* with a setpoint only; with neither the call fails.  A produced group has
\* access ro, wo or rw and a non-empty PV.
C3_DirectionAndAccess ==
    (/\ CallResolved
     /\ Len(PvTuple(call.pvs)) \in {1, 2}
     /\ ~(Len(CallTypes) = 2 /\ CallDirections[1] = CallDirections[2]))
        => LET rb == CallPvOfDirection("r")
               sp == CallPvOfDirection("w")
           IN  IF rb = <<>> /\ sp = <<>>
               THEN ret.outcome = "ValueError: need either pv"
               ELSE /\ ret.outcome = "ok"
                    /\ ret.readback_pv = rb
                    /\ ret.setpoint_pv = sp
                    /\ rb # <<>> /\ sp # <<>> => ret.access = "rw" /\ ret.desc_pv = rb
                    /\ rb # <<>> /\ sp = <<>> => ret.access = "ro" /\ ret.desc_pv = rb
                    /\ rb = <<>> /\ sp # <<>> => ret.access = "wo" /\ ret.desc_pv = sp
                    /\ ret.access \in {"ro", "wo", "rw"}

\* a state in which C3's case happened: the setpoint given first, the
\* readback second, and the group is read-write with the readback described
C3_Witness ==
    /\ CallResolved
    /\ Len(PvTuple(call.pvs)) = 2
    /\ CallDirections = <<"w", "r">>
    /\ ret.outcome = "ok"
    /\ ret.access = "rw"
    /\ ret.readback_pv = PvTuple(call.pvs)[2]
    /\ ret.desc_pv = PvTuple(call.pvs)[2]

\* C6: explicit record types, one per PV, for a tuple of one PV or of two,
\* are the types used, with no record-type query and no need for macros; a
\* single PV of explicit type 'bi' without macros gives access 'ro' and
\* template 'binary_ro_group'; the macros-required error is raised only when
\* explicit record types are absent and macros are empty.
C6_ExplicitTypesHonoured ==
    call.made =>
        /\ (/\ Len(PvTuple(call.pvs)) \in {1, 2}
            /\ \A k \in DOMAIN PvTuple(call.pvs) : PvTuple(call.pvs)[k] # <<>>
            /\ Len(call.rtype) = Len(PvTuple(call.pvs)))
            => /\ ret.rtypQueries = <<>>
               /\ ret.outcome # "ValueError: macros must be set"
               /\ ret.outcome = "ok" => ret.rtype = call.rtype
        /\ (/\ Len(PvTuple(call.pvs)) = 1 /\ PvTuple(call.pvs)[1] # <<>>
            /\ call.rtype = <<"bi">> /\ call.macros = <<>>)
            => /\ ret.outcome = "ok" /\ ret.access = "ro"
               /\ ret.template = "binary_ro_group"
        /\ ret.outcome = "ValueError: macros must be set"
            => call.rtype = <<>> /\ call.macros = <<>>

\* C10: the description of a resolved group is (a) the explicit description
\* when one was given, with no description query; (b) without one and with
\* macros, the answer of the description query on the expanded desc_pv, or
\* empty when there is no answer; (c) without one and without macros, the raw
\* readback_pv.
C10_Description ==
    (call.made /\ ret.outcome = "ok") =>
        /\ call.description # <<>>
            => ret.desc = call.description /\ ret.descQueries = <<>>
        /\ (call.description = <<>> /\ call.macros # <<>>)
            => /\ ret.descQueries = <<expand_macros(ret.desc_pv, call.macros)>>
               /\ ret.desc = IF call.descAns = None THEN <<>> ELSE call.descAns
        /\ (call.description = <<>> /\ call.macros = <<>>)
            => ret.desc = ret.readback_pv

-----------------------------------------------------------------------------
(* display_from_pv_list, lines 241-252 *)

RunSingles == {[kind |-> "str", val |-> pv] : pv \in InfoPVs}
\* the pairs main forms (line 289): two different names of the list
RunPairs ==
    {[kind |-> "tuple", val |-> <<a, b>>] : a, b \in InfoPVs \ {<<>>}} \ 
    {[kind |-> "tuple", val |-> <<a, a>>] : a \in InfoPVs}

\* lines 247-248: [pvinfo for pvinfo in info if pvinfo is not None]
FilterNoneMutant(list) == list
FilterNone(list) == SelectSeq(list, LAMBDA r : r.outcome # "None")

\* others + groups (line 245): the unpaired names, then the pairs of main
RunInit ==
    /\ runMacros \in InfoMacros
    /\ \E o \in SeqsUpTo(RunSingles, MaxItems), g \in SeqsUpTo(RunPairs, MaxItems) :
        /\ Len(o) + Len(g) <= MaxItems
        /\ runList = o \o g
    /\ ri = 1
    /\ info = <<>>
    /\ rpc = "resolve"
    /\ shown = <<>>
    /\ runErr = <<>>
    /\ MacroIdle /\ GroupIdle /\ InfoIdle /\ LayoutIdle

\* line 244, one element: get_pv_info(macros, pvs=pv) returns a dict or None
RunResolve ==
    /\ rpc = "resolve" /\ ri <= Len(runList)
    /\ \E rtAns \in [1..Len(PvTuple(runList[ri])) -> CaTypes], descAns \in DescAnswers :
        LET r == get_pv_info(runMacros, runList[ri], <<>>, <<>>, rtAns, descAns)
        IN  /\ r.outcome \in {"ok", "None"}
            /\ r.descQueries # <<>> \/ descAns = None
            /\ info' = Append(info, r)
    /\ ri' = ri + 1
    /\ UNCHANGED <<runMacros, runList, rpc, shown, runErr>>
    /\ UNCHANGED <<macroVars, groupVars, infoVars, layoutVars>>

\* line 244, one element: get_pv_info raises and the run ends there
RunRaise ==
    /\ rpc = "resolve" /\ ri <= Len(runList)
    /\ \E rtAns \in [1..Len(PvTuple(runList[ri])) -> CaTypes] :
        LET r == get_pv_info(runMacros, runList[ri], <<>>, <<>>, rtAns, None)
        IN  /\ r.outcome \notin {"ok", "None"}
            /\ runMacros # <<>> \/ \A k \in DOMAIN rtAns : rtAns[k] = "None"
            /\ runErr' = r
    /\ rpc' = "raised"
    /\ UNCHANGED <<runMacros, runList, ri, info, shown>>
    /\ UNCHANGED <<macroVars, groupVars, infoVars, layoutVars>>

\* lines 247-250: the None entries are dropped and make_display is called
RunDisplay ==
    /\ rpc = "resolve" /\ ri > Len(runList)
    /\ shown' = FilterNone(info)
    /\ rpc' = "displayed"
    /\ UNCHANGED <<runMacros, runList, ri, info, runErr>>
    /\ UNCHANGED <<macroVars, groupVars, infoVars, layoutVars>>

RunNext == RunResolve \/ RunRaise \/ RunDisplay

SpecRun == RunInit /\ [][RunNext]_vars

-----------------------------------------------------------------------------
(* Numbers: Python mixes int and float here; the model keeps them exact as *)
(* fractions <<numerator, denominator>> in lowest terms                     *)

RECURSIVE GCD(_, _)
GCD(a, b) == IF b = 0 THEN a ELSE GCD(b, a % b)

Frac(n, d) == LET g == GCD(n, d) IN IF g = 0 THEN <<0, 1>> ELSE <<n \div g, d \div g>>
FracMul(a, b) == Frac(a[1] * b[1], a[2] * b[2])
FracAddInt(a, k) == Frac(a[1] + k * a[2], a[2])
FracLeq(a, b) == a[1] * b[2] <= b[1] * a[2]
\* int(value): truncation, of a value that is never negative here
FracInt(a) == a[1] \div a[2]
One == <<1, 1>>

-----------------------------------------------------------------------------
(* add_widget, lines 99-136, and scale_attributes, lines 91-97 *)

\* line 100
DefaultSpacing == 5

\* dict.update: the keys of both, the values of u where it has the key
DictUpdate(d, u) ==
    [k \in DOMAIN d \cup DOMAIN u |-> IF k \in DOMAIN u THEN u[k] ELSE d[k]]

\* a keyword argument of add_widget, or its default
KwArg(kwargs, key, default) == IF key \in DOMAIN kwargs THEN kwargs[key] ELSE default

\* **info of add_widget: the keyword arguments its named parameters leave
InfoOf(kwargs) ==
    [k \in DOMAIN kwargs \ {"x_scale", "y_scale", "spacing"} |-> kwargs[k]]

\* line 97: str(int(value * scale))
ScaleValue(value, scale) == FracInt(FracMul(<<value, 1>>, scale))

\* lines 112-118 on one widget of the copied subtree
ScaleGeometry(g, x_scale, y_scale) ==
    [x |-> IF x_scale # One THEN ScaleValue(g.x, x_scale) ELSE g.x,
     width |-> IF x_scale # One THEN ScaleValue(g.width, x_scale) ELSE g.width,
     y |-> IF y_scale # One THEN ScaleValue(g.y, y_scale) ELSE g.y,
     height |-> IF y_scale # One THEN ScaleValue(g.height, y_scale) ELSE g.height]

\* lines 104-106: the cursor returned for a template that is not in the catalog
SkippedCursorMutant(y, spacing) == FracAddInt(y, spacing)
SkippedCursor(y, spacing) == y

\* add_widget(x, y, parent, widget_name, **kwargs) against the catalog:
\* status "skipped" (line 106), "KeyError" (line 130: a placeholder of the
\* template has no field) or "ok"; y the cursor returned; parent and catalog
\* as the call leaves them
add_widget(x, y, parent, widget_name, kwargs, catalog) ==
    LET x_scale == KwArg(kwargs, "x_scale", One)
        y_scale == KwArg(kwargs, "y_scale", One)
        spacing == KwArg(kwargs, "spacing", DefaultSpacing)
        fields == InfoOf(kwargs)
    IN
    IF widget_name \notin DOMAIN catalog
    THEN [status |-> "skipped", y |-> SkippedCursor(y, spacing), parent |-> parent,
          catalog |-> catalog]
    ELSE
    LET widget == catalog[widget_name]
        top == ScaleGeometry(widget.geometry, x_scale, y_scale)
        subs == [k \in DOMAIN widget.subs |-> ScaleGeometry(widget.subs[k], x_scale, y_scale)]
        x2 == FracMul(x, x_scale)
        y2 == FracMul(y, y_scale)
        node == [name |-> widget_name,
                 geometry |-> [top EXCEPT !.x = FracInt(FracMul(x2, x_scale)),
                                          !.y = FracInt(FracMul(y2, y_scale))],
                 subs |-> subs,
                 text |-> [k \in widget.keys \cap DOMAIN fields |-> fields[k]]]
    IN
    IF ~(widget.keys \subseteq DOMAIN fields)
    THEN [status |-> "KeyError", y |-> y, parent |-> parent, catalog |-> catalog]
    ELSE [status |-> "ok", y |-> FracAddInt(y2, spacing + top.height),
          parent |-> Append(parent, node), catalog |-> catalog]

-----------------------------------------------------------------------------
(* make_display, lines 138-166 *)

\* the strings the group records hold, in Python's string order
SortedStrings ==
    <<"", "A:IN", "B desc", "B:IN", "B:OUT", "C:IN",
      "binary_ro_group", "text_ro_group", "text_rw_group">>
StrRank(str) == CHOOSE k \in DOMAIN SortedStrings : SortedStrings[k] = str

RECURSIVE InsertByKey(_, _, _)
\* item placed behind every element whose key is not greater: the sort is stable
InsertByKey(list, item, key) ==
    IF list = <<>> THEN <<item>>
    ELSE IF StrRank(Head(list)[key]) <= StrRank(item[key])
         THEN <<Head(list)>> \o InsertByKey(Tail(list), item, key)
         ELSE <<item>> \o list

RECURSIVE SortByKey(_, _)
\* line 159: pvs.sort(key=lambda item: item[sort_key])
SortByKey(list, key) ==
    IF list = <<>> THEN <<>>
    ELSE InsertByKey(SortByKey(SubSeq(list, 1, Len(list) - 1), key), list[Len(list)], key)

\* lines 150-156: the sort key, "" for None; line 155 reads pvs[0]
SortKey(sortArg, list) ==
    IF sortArg = "pv" THEN "desc_pv"
    ELSE IF sortArg = "type" THEN "template"
    ELSE IF sortArg \in DOMAIN list[1] THEN sortArg
    ELSE ""

\* line 155 raises IndexError: sort is neither 'pv' nor 'type' and pvs is empty
SortRaises(sortArg, list) == sortArg \notin {"pv", "type"} /\ list = <<>>

\* lines 162-163: the group's copy, updated with the shared fields
MergedFields(pv_info, shared_info) == DictUpdate(pv_info, shared_info)

\* the template file read by read_template (lines 68-83): three widgets
BaseCatalog ==
    [title_group |->
        [geometry |-> [x |-> 0, y |-> 0, width |-> 100, height |-> 30],
         subs |-> <<[x |-> 5, y |-> 5, width |-> 90, height |-> 21]>>,
         keys |-> {"title"}],
     text_ro_group |->
        [geometry |-> [x |-> 0, y |-> 0, width |-> 100, height |-> 8],
         subs |-> <<[x |-> 3, y |-> 1, width |-> 45, height |-> 7]>>,
         keys |-> {"readback_pv", "desc"}],
     text_rw_group |->
        [geometry |-> [x |-> 0, y |-> 0, width |-> 100, height |-> 12],
         subs |-> <<[x |-> 3, y |-> 1, width |-> 45, height |-> 7],
                    [x |-> 51, y |-> 1, width |-> 45, height |-> 7]>>,
         keys |-> {"readback_pv", "setpoint_pv", "desc", "units"}]]

\* the catalogs drawn: the whole file, files lacking a widget, and a file
\* whose title widget has a placeholder that is no field of the title call
Catalogs ==
    {[n \in names |-> BaseCatalog[n]] :
        names \in {{"title_group", "text_ro_group", "text_rw_group"},
                   {"text_ro_group", "text_rw_group"},
                   {"title_group", "text_rw_group"}}}
    \cup {[BaseCatalog EXCEPT !.title_group.keys = {"title", "units"}]}

\* dicts as get_pv_info returns them
GroupRecords ==
    {[readback_pv |-> "A:IN", setpoint_pv |-> "", desc |-> "A:IN",
      desc_pv |-> "A:IN", template |-> "text_ro_group"],
     [readback_pv |-> "B:IN", setpoint_pv |-> "B:OUT", desc |-> "B desc",
      desc_pv |-> "B:IN", template |-> "text_rw_group"],
     [readback_pv |-> "C:IN", setpoint_pv |-> "", desc |-> "",
      desc_pv |-> "C:IN", template |-> "binary_ro_group"]}

EmptyDict == [k \in {} |-> 0]

\* **info of make_display: x_scale, y_scale (command line, lines 326-329),
\* spacing, and any other field the caller shares with every group
SharedInfos ==
    {xs @@ ys @@ sp @@ ex :
        xs \in {EmptyDict, "x_scale" :> <<3, 2>>},
        ys \in {EmptyDict, "y_scale" :> <<1, 2>>, "y_scale" :> <<2, 1>>},
        sp \in {EmptyDict, "spacing" :> 1},
        ex \in {EmptyDict, "desc" :> "B desc", "units" :> "V"}}

LayoutInit ==
    /\ templates \in Catalogs
    /\ pvs \in SeqsUpTo(GroupRecords, MaxGroups)
    /\ shared \in SharedInfos
    /\ title \in {"", "T"}
    /\ sort \in {"", "type"}
    /\ xpos = <<4, 1>>
    /\ cursor \in {<<0, 1>>, <<20, 1>>}
    /\ dmacros \in InfoMacros
    /\ injected = <<>>
    /\ root = <<>>
    /\ calls = <<>>
    /\ li = 0
    /\ lpc = "title"
    /\ MacroIdle /\ GroupIdle /\ InfoIdle /\ RunIdle

\* what one add_widget call is remembered by
CallRecord(name, kwargs, group, r) ==
    [name |-> name, kwargs |-> kwargs, group |-> group, status |-> r.status,
     yin |-> cursor, yout |-> r.y,
     rootBefore |-> root, rootAfter |-> r.parent, catalogAfter |-> r.catalog]

\* line 141: the title widget, when there is a title
TitleCall ==
    add_widget(xpos, cursor, root, "title_group", DictUpdate(shared, [title |-> title]),
               templates)

\* lines 140-159: title widget, macro children, sort; neither call raises
LayoutHead ==
    /\ lpc = "title"
    /\ title # "" => TitleCall.status # "KeyError"
    /\ ~SortRaises(sort, pvs)
    /\ IF title # ""
       THEN /\ cursor' = TitleCall.y
            /\ root' = TitleCall.parent
            /\ templates' = TitleCall.catalog
            /\ calls' = Append(calls, CallRecord("title_group",
                                   DictUpdate(shared, [title |-> title]), EmptyDict, TitleCall))
       ELSE UNCHANGED <<cursor, root, templates, calls>>
    /\ injected' = dmacros
    /\ pvs' = IF SortKey(sort, pvs) # "" THEN SortByKey(pvs, SortKey(sort, pvs)) ELSE pvs
    /\ li' = 1
    /\ lpc' = "groups"
    /\ UNCHANGED <<shared, title, sort, xpos, dmacros>>
    /\ UNCHANGED <<macroVars, groupVars, infoVars, runVars>>

\* lines 140-159 ending in an exception: KeyError out of the title's
\* add_widget (line 130), or IndexError at line 155 after title and macros
LayoutHeadRaise ==
    /\ lpc = "title"
    /\ \/ /\ title # "" /\ TitleCall.status = "KeyError"
          /\ UNCHANGED <<cursor, root, templates, calls, injected>>
       \/ /\ title # "" /\ TitleCall.status # "KeyError" /\ SortRaises(sort, pvs)
          /\ cursor' = TitleCall.y
          /\ root' = TitleCall.parent
          /\ templates' = TitleCall.catalog
          /\ calls' = Append(calls, CallRecord("title_group",
                                 DictUpdate(shared, [title |-> title]), EmptyDict, TitleCall))
          /\ injected' = dmacros
       \/ /\ title = "" /\ SortRaises(sort, pvs)
          /\ injected' = dmacros
          /\ UNCHANGED <<cursor, root, templates, calls>>
    /\ lpc' = "raised"
    /\ UNCHANGED <<pvs, shared, title, sort, xpos, dmacros, li>>
    /\ UNCHANGED <<macroVars, groupVars, infoVars, runVars>>

\* line 164 for the group at li
GroupCall ==
    add_widget(xpos, cursor, root, MergedFields(pvs[li], shared)["template"],
               MergedFields(pvs[li], shared), templates)

\* lines 161-164, one group: its widget is placed, or skipped for want of a
\* template
LayoutGroup ==
    /\ lpc = "groups" /\ li <= Len(pvs)
    /\ GroupCall.status # "KeyError"
    /\ cursor' = GroupCall.y
    /\ root' = GroupCall.parent
    /\ templates' = GroupCall.catalog
    /\ calls' = Append(calls, CallRecord(MergedFields(pvs[li], shared)["template"],
                           MergedFields(pvs[li], shared), pvs[li], GroupCall))
    /\ li' = li + 1
    /\ UNCHANGED <<pvs, shared, title, sort, xpos, dmacros, injected, lpc>>
    /\ UNCHANGED <<macroVars, groupVars, infoVars, runVars>>

\* lines 161-164, one group: line 130 raises KeyError
LayoutGroupRaise ==
    /\ lpc = "groups" /\ li <= Len(pvs)
    /\ GroupCall.status = "KeyError"
    /\ lpc' = "raised"
    /\ UNCHANGED <<templates, pvs, shared, title, sort, xpos, cursor, root, calls,
                   dmacros, injected, li>>
    /\ UNCHANGED <<macroVars, groupVars, infoVars, runVars>>

\* line 166
LayoutDone ==
    /\ lpc = "groups" /\ li > Len(pvs)
    /\ lpc' = "done"
    /\ UNCHANGED <<templates, pvs, shared, title, sort, xpos, cursor, root, calls,
                   dmacros, injected, li>>
    /\ UNCHANGED <<macroVars, groupVars, infoVars, runVars>>

LayoutNext ==
    LayoutHead \/ LayoutHeadRaise \/ LayoutGroup \/ LayoutGroupRaise \/ LayoutDone

SpecLayout == LayoutInit /\ [][LayoutNext]_vars

\* C5: with positive spacing, a non-negative starting cursor and any positive
\* scale factors, the cursor returned by each successful add_widget call of
\* make_display is never less than the cursor passed into it.
C5_CursorMonotone ==
    \A k \in DOMAIN calls :
        calls[k].status = "ok" => FracLeq(calls[k].yin, calls[k].yout)

\* C7: add_widget with a template name that is not in the catalog does not
\* raise, returns the cursor it was given, appends nothing to the display
\* root and leaves the catalog unchanged; the next group of make_display is
\* placed at the cursor the skipped one would have used.
C7_MissingTemplateSkipped ==
    \A k \in DOMAIN calls :
        calls[k].name \notin DOMAIN templates =>
            /\ calls[k].status = "skipped"
            /\ calls[k].yout = calls[k].yin
            /\ calls[k].rootAfter = calls[k].rootBefore
            /\ calls[k].catalogAfter = templates
            /\ (k + 1) \in DOMAIN calls => calls[k + 1].yin = calls[k].yin

\* a state in which C7's case happened: a group without template was skipped
\* at a cursor below the origin and the next group's widget was placed there
C7_Witness ==
    \E k \in DOMAIN calls :
        /\ calls[k].name = "binary_ro_group"
        /\ calls[k].name \notin DOMAIN templates
        /\ calls[k].status = "skipped"
        /\ calls[k].yin[1] > 0
        /\ (k + 1) \in DOMAIN calls
        /\ calls[k + 1].status = "ok"
        /\ calls[k + 1].yin = calls[k].yin

\* C9: the fields add_widget gets for a group hold every key of the group's
\* own mapping and of the shared one, with the group's own value for a key
\* that both have; the caller's group records are not modified.
C9_GroupFieldsWin ==
    \A k \in DOMAIN calls :
        calls[k].name # "title_group" =>
            /\ DOMAIN calls[k].kwargs = DOMAIN calls[k].group \cup DOMAIN shared
            /\ \A key \in DOMAIN calls[k].group :
                    calls[k].kwargs[key] = calls[k].group[key]
            /\ \E j \in DOMAIN pvs : pvs[j] = calls[k].group

=============================================================================
